---- MODULE Spec2Model ----
(***************************************************************************)
(* The systemd unit watcher of mesosphere/performance                      *)
(* (supervisor/watch/watcher.go): the dispatcher loop StartWatcher, the    *)
(* per-tick fan-out processUnits / handleUnit, the aggregator              *)
(* processResult and the uploader upload; and the configuration of the     *)
(* API server (api/cmd/api-server/config.go): NewConfig.                    *)
(*                                                                         *)
(* Goroutines are processes with a program counter; the unbuffered         *)
(* resultChan is a rendezvous between a handleUnit blocked in its send and *)
(* processResult blocked in its select.  Variables whose comment says      *)
(* "history" record what happened and are never read by the program.       *)
(***************************************************************************)
EXTENDS Integers, Sequences, FiniteSets, TLC

\* ------------------------------------------------------------- bounds
NUnits == 2           \* units systemd can report
NSinks == 2           \* configured backends
MaxTime == 2          \* clock values explored
MaxInputs == 3        \* sample results and events explored
MaxPutErrors == 1     \* failing uploads explored
FlagBufferSize == 2   \* cfg.FlagBufferSize
UploadInterval == 1   \* cfg.UploadInterval, in clock units
Wait == 1             \* cfg.Wait, in clock units
MaxArgs == 3          \* length of the argument lists NewConfig is given

Units == 1..NUnits
Sinks == 1..NSinks

\* the proc.CPUPidUsage the sampler measures for the process of unit u
CPUPidUsage(u) == [User |-> u, System |-> u + 1, Total |-> 2 * u + 1]

\* systemd.SystemdUnitProps of unit u
UnitName(u) == u
UnitPid(u) == 100 + u

VARIABLES
    now,          \* the wall clock (time.Now)
    cancelled,    \* ctx.Done() is closed
    dispPc,       \* StartWatcher: "processUnits", "wait", "select", "panic"
    timerAt,      \* when the time.After(cfg.Wait) of the current select fires
    enumErr,      \* the err of the last processUnits call is not nil
    closeCount,   \* number of close(resultChan) executed without panic
    taskPc,       \* handleUnit of each unit: "idle", "load", "send"
    aggPc,        \* processResult: "select", "returned", "panic"
    rows,         \* processResult's rows
    updateTime,   \* processResult's updateTime
    nextId,       \* identity of the next row allocated (a Go pointer)
    puts,         \* the Put calls the backends got, in order: [sink, call, ok]
    uploads,      \* history: the upload calls, [items, err], items the rows' ids
    appended,     \* history: the ids of the rows appended at watcher.go:129
    events,       \* history: the ids of the rows built from events at watcher.go:118
    osArgs,       \* api-server: the args NewConfig is called with
    osEnv,        \* api-server: the API_SERVER_ environment variables
    cfgPc,        \* api-server: "off", "start" (before NewConfig), "done"
    cfgRet        \* api-server: what NewConfig returned, [c, err]

vars == << now, cancelled, dispPc, timerAt, enumErr, closeCount, taskPc,
           aggPc, rows, updateTime, nextId, puts, uploads, appended, events,
           osArgs, osEnv, cfgPc, cfgRet >>

dispVars == << dispPc, timerAt, enumErr, closeCount >>
taskVars == << taskPc >>
aggVars == << aggPc, rows, updateTime, nextId, puts, uploads, appended, events >>
watcherVars == << now, cancelled, dispVars, taskVars, aggVars >>
cfgVars == << osArgs, osEnv, cfgPc, cfgRet >>

\* os.Hostname() at the start of processResult ("<undefined>" when it
\* fails); it is copied into every row and read by no step
Hostname == "host"

\* A panic in any goroutine ends the process.
Crashed == dispPc = "panic" \/ aggPc = "panic"

Last(s) == s[Len(s)]

\* the identities of the rows of a batch
Ids(rs) == [i \in 1..Len(rs) |-> rs[i].id]

\* history: inputs offered to processResult so far, on resultChan or eventChan
Sent == Len(appended) + Len(events) + Cardinality({u \in Units : taskPc[u] = "send"})

\* history: upload calls that returned an error
Failed == {n \in 1..Len(uploads) : uploads[n].err # 0}

\* what the backends' Put may answer to the next upload call
PutErrs ==
    {pe \in [Sinks -> BOOLEAN] :
        (\E b \in Sinks : pe[b]) => Cardinality(Failed) < MaxPutErrors}

\* ------------------------------------------------------------ helpers

\* SystemdUnitStatus built by handleUnit
SystemdUnitStatus(u, usage) ==
    [Name |-> UnitName(u), Pid |-> UnitPid(u), CPUUsage |-> usage]

\* strconv.Itoa
Itoa(n) == ToString(n)

\* (*SystemdUnitStatus).ToBigQuerySchema
ToBigQuerySchema(s, t) ==
    [Name            |-> s.Name,
     Timestamp       |-> t,
     UserCPU_Usage   |-> s.CPUUsage.User,
     SystemCPU_Usage |-> s.CPUUsage.User,
     TotalCPU_Usage  |-> s.CPUUsage.Total,
     Instance        |-> Itoa(s.Pid),
     Hostname        |-> ""]

\* (*BigQuerySchema).ToBigQueryRow: the row wraps the schema; id is the
\* identity of the allocated row.
ToBigQueryRow(schema, id) == [id |-> id, schema |-> schema]

\* The event an external producer pushes on eventChan.
Event ==
    [Name            |-> 0,
     Timestamp       |-> 0,
     UserCPU_Usage   |-> 0,
     SystemCPU_Usage |-> 0,
     TotalCPU_Usage  |-> 0,
     Instance        |-> "",
     Hostname        |-> "external"]

\* upload's loop from backend i on: log is the Put calls made so far,
\* putErr[b] says whether b.Put fails for this call.  The result is the
\* log after the loop and err, the index of the failing backend (0: nil).
RECURSIVE uploadFrom(_, _, _, _)
uploadFrom(i, call, putErr, log) ==
    IF i > NSinks THEN [log |-> log, err |-> 0]
    ELSE LET log1 == Append(log, [sink |-> i, call |-> call, ok |-> ~putErr[i]])
         IN  IF putErr[i] THEN [log |-> log1, err |-> i]
             ELSE uploadFrom(i + 1, call, putErr, log1)

\* upload that goes on to the remaining backends after a failed Put and
\* returns the first error
RECURSIVE uploadAllFrom(_, _, _, _, _)
uploadAllFrom(i, call, putErr, log, err) ==
    IF i > NSinks THEN [log |-> log, err |-> err]
    ELSE uploadAllFrom(i + 1, call, putErr,
                       Append(log, [sink |-> i, call |-> call, ok |-> ~putErr[i]]),
                       IF err = 0 /\ putErr[i] THEN i ELSE err)

uploadKeepGoing(call, putErr, log) == uploadAllFrom(1, call, putErr, log, 0)

\* upload(ctx, items, backends), items being the call-th batch uploaded
upload(call, putErr, log) == uploadFrom(1, call, putErr, log)

\* the flush condition with the row count compared by > instead of >=
ShouldUploadStrict(n, age) == n > FlagBufferSize \/ age >= UploadInterval

\* the flush condition of processResult (watcher.go:130)
ShouldUpload(n, age) == n >= FlagBufferSize \/ age >= UploadInterval

\* ------------------------------------------- api-server configuration
\* Strings are Go strings; a time.Duration is counted in milliseconds.

\* the nil error
NoError == ""

Digit == {"0", "1", "2", "3", "4", "5", "6", "7", "8", "9"}

DigitVal(c) ==
    CASE c = "0" -> 0 [] c = "1" -> 1 [] c = "2" -> 2 [] c = "3" -> 3
      [] c = "4" -> 4 [] c = "5" -> 5 [] c = "6" -> 6 [] c = "7" -> 7
      [] c = "8" -> 8 [] c = "9" -> 9

\* time.leadingInt: the leading [0-9]* of s as a number, and the rest
RECURSIVE leadingIntFrom(_, _)
leadingIntFrom(x, s) ==
    IF s # "" /\ Head(s) \in Digit
    THEN leadingIntFrom(x * 10 + DigitVal(Head(s)), Tail(s))
    ELSE [x |-> x, rem |-> s]

leadingInt(s) == leadingIntFrom(0, s)

\* time.leadingFraction: the leading [0-9]* of s as the numerator x of a
\* fraction x/scale, and the rest
RECURSIVE leadingFractionFrom(_, _, _)
leadingFractionFrom(x, scale, s) ==
    IF s # "" /\ Head(s) \in Digit
    THEN leadingFractionFrom(x * 10 + DigitVal(Head(s)), scale * 10, Tail(s))
    ELSE [x |-> x, scale |-> scale, rem |-> s]

leadingFraction(s) == leadingFractionFrom(0, 1, s)

\* time.unitMap, for the units of a millisecond and more
unitMap == [u \in {"ms", "s", "m", "h"} |->
              CASE u = "ms" -> 1
                [] u = "s" -> 1000
                [] u = "m" -> 60000
                [] u = "h" -> 3600000]

\* the length of the unit s starts with: up to the next '.' or digit
RECURSIVE unitLen(_)
unitLen(s) ==
    IF s = "" \/ Head(s) = "." \/ Head(s) \in Digit THEN 0
    ELSE 1 + unitLen(Tail(s))

\* the loop of time.ParseDuration: ([0-9]*(\.[0-9]*)?[a-z]+)+, d being the
\* duration of the groups read so far
RECURSIVE parseDurationFrom(_, _)
parseDurationFrom(d, s) ==
    IF s = "" THEN [d |-> d, err |-> NoError]
    ELSE IF ~(Head(s) = "." \/ Head(s) \in Digit)
    THEN [d |-> 0, err |-> "time: invalid duration"]
    ELSE LET li == leadingInt(s)
             pre == Len(li.rem) # Len(s)
             dot == li.rem # "" /\ Head(li.rem) = "."
             lf == IF dot THEN leadingFraction(Tail(li.rem))
                   ELSE [x |-> 0, scale |-> 1, rem |-> li.rem]
             post == dot /\ Len(lf.rem) # Len(li.rem) - 1
             i == unitLen(lf.rem)
             u == SubSeq(lf.rem, 1, i)
         IN  IF ~pre /\ ~post
             THEN [d |-> 0, err |-> "time: invalid duration"]
             ELSE IF i = 0
             THEN [d |-> 0, err |-> "time: missing unit in duration"]
             ELSE IF u \notin DOMAIN unitMap
             THEN [d |-> 0, err |-> "time: unknown unit in duration"]
             ELSE parseDurationFrom(
                      d + li.x * unitMap[u] + (lf.x * unitMap[u]) \div lf.scale,
                      SubSeq(lf.rem, i + 1, Len(lf.rem)))

\* time.ParseDuration
ParseDuration(s) ==
    LET signed == s # "" /\ Head(s) \in {"-", "+"}
        neg == signed /\ Head(s) = "-"
        t == IF signed THEN Tail(s) ELSE s
    IN  IF t = "0" THEN [d |-> 0, err |-> NoError]
        ELSE IF t = "" THEN [d |-> 0, err |-> "time: invalid duration"]
        ELSE LET r == parseDurationFrom(0, t)
             IN  IF neg /\ r.err = NoError THEN [d |-> 0 - r.d, err |-> NoError]
                 ELSE r

\* strconv.ParseBool returns no error
ParseBoolOk(s) ==
    s \in {"1", "t", "T", "TRUE", "true", "True",
           "0", "f", "F", "FALSE", "false", "False"}

\* strconv.ParseInt(s, 0, 64) returns no error, for decimal numerals
ParseIntOk(s) ==
    LET t == IF s # "" /\ Head(s) \in {"-", "+"} THEN Tail(s) ELSE s
    IN  /\ t # ""
        /\ leadingInt(t).rem = ""
        /\ Head(t) = "0" => t = "0"

Atoi(s) ==
    IF s # "" /\ Head(s) = "-" THEN 0 - leadingInt(Tail(s)).x
    ELSE IF s # "" /\ Head(s) = "+" THEN leadingInt(Tail(s)).x
    ELSE leadingInt(s).x

\* the flags Config.setFlags defines (config.go:27-34) and their types
FlagNames ==
    {"verbose", "project-id", "dataset", "event-stream-table",
     "event-buffer-size", "flush-buffer"}

FlagType(name) ==
    CASE name = "verbose" -> "bool"
      [] name = "event-buffer-size" -> "int"
      [] OTHER -> "string"

\* the position of the first '=' of name after its first character, or 0
RECURSIVE equalsFrom(_, _)
equalsFrom(name, i) ==
    IF i > Len(name) THEN 0
    ELSE IF SubSeq(name, i, i) = "=" THEN i
    ELSE equalsFrom(name, i + 1)

\* a flag set in which no flag has been set
NoFlags == [set |-> {}, val |-> [n \in FlagNames |-> ""]]

\* (*flag.FlagSet).Parse under flag.ContinueOnError: arguments is what
\* is left of the command line, actual the flags set so far and their
\* values.  Parsing stops at the first argument that is not a flag and
\* after "--".
RECURSIVE Parse(_, _)
Parse(arguments, actual) ==
    IF arguments = << >> THEN [actual |-> actual, err |-> NoError]
    ELSE
    LET s == Head(arguments)
        rest == Tail(arguments)
        numMinuses == IF SubSeq(s, 2, 2) = "-" THEN 2 ELSE 1
        name0 == SubSeq(s, numMinuses + 1, Len(s))
        eq == equalsFrom(name0, 2)
        hasValue == eq # 0
        name == IF hasValue THEN SubSeq(name0, 1, eq - 1) ELSE name0
        fromNext == ~hasValue /\ FlagType(name) # "bool"
        value == IF hasValue THEN SubSeq(name0, eq + 1, Len(name0))
                 ELSE IF FlagType(name) = "bool" THEN "true"
                 ELSE Head(rest)
        setTo == [set |-> actual.set \cup {name},
                  val |-> [actual.val EXCEPT ![name] = value]]
    IN  IF Len(s) < 2 \/ Head(s) # "-"
        THEN [actual |-> actual, err |-> NoError]
        ELSE IF numMinuses = 2 /\ Len(s) = 2
        THEN [actual |-> actual, err |-> NoError]
        ELSE IF name0 = "" \/ Head(name0) \in {"-", "="}
        THEN [actual |-> actual, err |-> "bad flag syntax"]
        ELSE IF name \notin FlagNames
        THEN [actual |-> actual,
              err |-> IF name \in {"help", "h"} THEN "flag: help requested"
                      ELSE "flag provided but not defined"]
        ELSE IF fromNext /\ rest = << >>
        THEN [actual |-> actual, err |-> "flag needs an argument"]
        ELSE IF \/ FlagType(name) = "bool" /\ ~ParseBoolOk(value)
                \/ FlagType(name) = "int" /\ ~ParseIntOk(value)
        THEN [actual |-> actual, err |-> "invalid value for flag"]
        ELSE Parse(IF fromNext THEN Tail(rest) ELSE rest, setTo)

\* the value flagSet.Parse leaves in the field a flag is bound to: the one
\* given on the command line, or the field's value before Parse
FlagValue(actual, name, before) ==
    IF name \in actual.set THEN actual.val[name] ELSE before

\* os.Getenv(name), or the fallback when it is empty (config.go:50-60)
EnvOr(env, name, fallback) == IF env[name] # "" THEN env[name] ELSE fallback

\* the Config of config.go:41-47 with the environment applied (49-60)
ConfigFromEnv(env) ==
    [FlagVerbose              |-> FALSE,
     FlagProjectID            |-> EnvOr(env, "PROJECT_ID", "massive-bliss-781"),
     FlagDataset              |-> EnvOr(env, "DATASET", "dcos_performance"),
     FlagEventStreamTableName |-> "event_stream",
     FlagEventBuffer          |-> 500,
     FlagEventFlushInterval   |-> EnvOr(env, "FLUSH_INTERVAL", "10s"),
     EventUploadInterval      |-> 0]

\* the Config after flagSet.Parse has set the fields of the flags given
ConfigFromFlags(c, actual) ==
    [FlagVerbose              |-> IF "verbose" \in actual.set
                                  THEN actual.val["verbose"] \in
                                         {"1", "t", "T", "TRUE", "true", "True"}
                                  ELSE c.FlagVerbose,
     FlagProjectID            |-> FlagValue(actual, "project-id", c.FlagProjectID),
     FlagDataset              |-> FlagValue(actual, "dataset", c.FlagDataset),
     FlagEventStreamTableName |-> FlagValue(actual, "event-stream-table",
                                            c.FlagEventStreamTableName),
     FlagEventBuffer          |-> IF "event-buffer-size" \in actual.set
                                  THEN Atoi(actual.val["event-buffer-size"])
                                  ELSE c.FlagEventBuffer,
     FlagEventFlushInterval   |-> FlagValue(actual, "flush-buffer",
                                            c.FlagEventFlushInterval),
     EventUploadInterval      |-> c.EventUploadInterval]

\* NewConfig that logs the error of time.ParseDuration and goes on with
\* the zero duration
NewConfigZeroInterval(args, env) ==
    IF Len(args) = 0
    THEN [c |-> << >>, err |-> "arguments cannot be empty"]
    ELSE LET fs == Parse(Tail(args), NoFlags)
             c == ConfigFromFlags(ConfigFromEnv(env), fs.actual)
             pd == ParseDuration(c.FlagEventFlushInterval)
         IN  IF fs.err # NoError THEN [c |-> << >>, err |-> fs.err]
             ELSE [c |-> << [c EXCEPT !.EventUploadInterval = pd.d] >>,
                   err |-> NoError]

\* NewConfig(args): c is << >> for a nil *Config and << config >> otherwise
NewConfig(args, env) ==
    IF Len(args) = 0
    THEN [c |-> << >>, err |-> "arguments cannot be empty"]
    ELSE LET fs == Parse(Tail(args), NoFlags)
             c == ConfigFromFlags(ConfigFromEnv(env), fs.actual)
             pd == ParseDuration(c.FlagEventFlushInterval)
         IN  IF fs.err # NoError THEN [c |-> << >>, err |-> fs.err]
             ELSE IF pd.err # NoError THEN [c |-> << >>, err |-> pd.err]
             ELSE [c |-> << [c EXCEPT !.EventUploadInterval = pd.d] >>,
                   err |-> NoError]

\* the command-line arguments explored
ArgTokens ==
    {"api-server", "-flush-buffer", "--flush-buffer=1.5s", "-verbose",
     "-event-buffer-size", "--", "1m30s", "7", "x"}

ArgLists == UNION {[1..n -> ArgTokens] : n \in 0..MaxArgs}

\* the environments explored
Environments ==
    [PROJECT_ID : {"", "p"}, DATASET : {"", "d"}, FLUSH_INTERVAL : {"", "2h", "1h30"}]

\* the environment in which no API_SERVER_ variable is set
NoEnvironment == [n \in {"PROJECT_ID", "DATASET", "FLUSH_INTERVAL"} |-> ""]

\* --------------------------------------------------------------- Init
\* the watcher after StartWatcher has started its two goroutines
StartWatcherInit ==
    /\ now = 0
    /\ cancelled = FALSE
    /\ dispPc = "processUnits"
    /\ timerAt = 0
    /\ enumErr = FALSE
    /\ closeCount = 0
    /\ taskPc = [u \in Units |-> "idle"]
    /\ aggPc = "select"
    /\ rows = << >>
    /\ updateTime = 0
    /\ nextId = 1
    /\ puts = << >>
    /\ uploads = << >>
    /\ appended = << >>
    /\ events = << >>


\* the watcher runs; NewConfig is not called
Init ==
    /\ StartWatcherInit
    /\ osArgs = << >>
    /\ osEnv = NoEnvironment
    /\ cfgPc = "off"
    /\ cfgRet = [c |-> << >>, err |-> NoError]

\* the API server before its call of NewConfig, with any command line and
\* environment
ConfigInit ==
    /\ StartWatcherInit
    /\ osArgs \in ArgLists
    /\ osEnv \in Environments
    /\ cfgPc = "start"
    /\ cfgRet = [c |-> << >>, err |-> NoError]
\* -------------------------------------------------------- environment

\* the wall clock advances
Tick ==
    /\ ~Crashed
    /\ now < MaxTime
    /\ now' = now + 1
    /\ UNCHANGED << cancelled, dispVars, taskVars, aggVars >>

    /\ UNCHANGED cfgVars
\* the owner of ctx cancels it
Cancel ==
    /\ ~Crashed
    /\ ~cancelled
    /\ cancelled' = TRUE
    /\ UNCHANGED << now, dispVars, taskVars, aggVars >>

    /\ UNCHANGED cfgVars
\* --------------------------------------------------------- dispatcher

\* processUnits whose enumeration error ends the process (a fatal log call
\* in place of logrus.Error)
processUnitsFatal ==
    /\ ~Crashed
    /\ dispPc = "processUnits"
    /\ \/ /\ dispPc' = "panic"
          /\ enumErr' = TRUE
          /\ UNCHANGED << timerAt, taskVars >>
       \/ /\ taskPc' = [u \in Units |-> "load"]
          /\ dispPc' = "wait"
          /\ enumErr' = FALSE
          /\ UNCHANGED timerAt
    /\ UNCHANGED << now, cancelled, closeCount, aggVars >>

    /\ UNCHANGED cfgVars
\* processUnits up to wg.Wait: the enumerator fails, or every unit it
\* returns gets a handleUnit goroutine
processUnits ==
    /\ ~Crashed
    /\ dispPc = "processUnits"
    /\ \/ /\ dispPc' = "select"            \* GetSystemdUnitsProps failed
          /\ timerAt' = now + Wait
          /\ enumErr' = TRUE
          /\ UNCHANGED taskVars
       \/ /\ taskPc' = [u \in Units |-> "load"]   \* go handleUnit for each
          /\ dispPc' = "wait"
          /\ enumErr' = FALSE
          /\ UNCHANGED timerAt
    /\ UNCHANGED << now, cancelled, closeCount, aggVars >>

    /\ UNCHANGED cfgVars
\* wg.Wait that returns while handleUnit goroutines are still running (the
\* wg.Add(1) before each go statement left out)
wgWaitNoAdd ==
    /\ ~Crashed
    /\ dispPc = "wait"
    /\ dispPc' = "select"
    /\ timerAt' = now + Wait
    /\ UNCHANGED << now, cancelled, enumErr, closeCount, taskVars, aggVars >>

    /\ UNCHANGED cfgVars
\* wg.Wait returns once every handleUnit has run wg.Done
wgWait ==
    /\ ~Crashed
    /\ dispPc = "wait"
    /\ \A u \in Units : taskPc[u] = "idle"
    /\ dispPc' = "select"
    /\ timerAt' = now + Wait
    /\ UNCHANGED << now, cancelled, enumErr, closeCount, taskVars, aggVars >>

    /\ UNCHANGED cfgVars
\* StartWatcher's select, case <-ctx.Done(): close(resultChan) and loop.
\* Closing a closed channel panics.
watcherDone ==
    /\ ~Crashed
    /\ dispPc = "select"
    /\ cancelled
    /\ IF closeCount = 0
       THEN /\ closeCount' = 1
            /\ dispPc' = "processUnits"
       ELSE /\ dispPc' = "panic"
            /\ UNCHANGED closeCount
    /\ timerAt' = 0                        \* the timer is dropped
    /\ UNCHANGED << now, cancelled, enumErr, taskVars, aggVars >>

    /\ UNCHANGED cfgVars
\* StartWatcher's select, case <-time.After(cfg.Wait)
watcherTimer ==
    /\ ~Crashed
    /\ dispPc = "select"
    /\ now >= timerAt
    /\ dispPc' = "processUnits"
    /\ timerAt' = 0
    /\ UNCHANGED << now, cancelled, enumErr, closeCount, taskVars, aggVars >>

    /\ UNCHANGED cfgVars
\* -------------------------------------------------------------- tasks

\* handleUnit without the deferred wg.Done: a unit whose LoadByPID fails
\* returns without releasing the wait group
handleUnitNoDone(u) ==
    /\ ~Crashed
    /\ taskPc[u] = "load"
    /\ \/ taskPc' = [taskPc EXCEPT ![u] = "failed"]
       \/ /\ cancelled \/ Sent < MaxInputs
          /\ taskPc' = [taskPc EXCEPT ![u] = IF cancelled THEN "idle" ELSE "send"]
    /\ UNCHANGED << now, cancelled, dispVars, aggVars >>

    /\ UNCHANGED cfgVars
\* handleUnit from the return of proc.LoadByPID to its send: LoadByPID
\* fails (log, return), or the select takes ctx.Done() (return), or the
\* select takes the default branch and blocks in the send
handleUnit(u) ==
    /\ ~Crashed
    /\ taskPc[u] = "load"
    /\ \/ taskPc' = [taskPc EXCEPT ![u] = "idle"]          \* err != nil
       \/ /\ cancelled \/ Sent < MaxInputs
          /\ taskPc' = [taskPc EXCEPT ![u] = IF cancelled THEN "idle" ELSE "send"]
    /\ UNCHANGED << now, cancelled, dispVars, aggVars >>

    /\ UNCHANGED cfgVars
\* --------------------------------------------------------- aggregator

\* processResult's select, case <-ctx.Done(): return
processResultDone ==
    /\ ~Crashed
    /\ aggPc = "select"
    /\ cancelled
    /\ aggPc' = "returned"
    /\ UNCHANGED << now, cancelled, dispVars, taskVars,
                    rows, updateTime, nextId, puts, uploads, appended, events >>

    /\ UNCHANGED cfgVars
\* the event uploaded together with the rows of the periodic batch
EventItemsMerged(rs, row) == Append(rs, row)

\* the batch processResult uploads for an event (watcher.go:118)
EventItems(rs, row) == << row >>

\* the event branch sharing the flush of the periodic batch: a successful
\* upload of the event empties rows and resets updateTime
processResultEventFlush ==
    /\ ~Crashed
    /\ aggPc = "select"
    /\ Sent < MaxInputs
    /\ \E putErr \in PutErrs :
         LET row == ToBigQueryRow(Event, nextId)
             items == EventItems(rows, row)
             up == upload(Len(uploads) + 1, putErr, puts)
         IN  /\ nextId' = nextId + 1
             /\ events' = Append(events, row.id)
             /\ puts' = up.log
             /\ uploads' = Append(uploads, [items |-> Ids(items), err |-> up.err])
             /\ rows' = IF up.err = 0 THEN << >> ELSE rows
             /\ updateTime' = IF up.err = 0 THEN now ELSE updateTime
    /\ UNCHANGED << now, cancelled, dispVars, taskVars, aggPc, appended >>
    /\ UNCHANGED cfgVars

\* processResult's select, case event := <-eventChan
processResultEvent ==
    /\ ~Crashed
    /\ aggPc = "select"
    /\ Sent < MaxInputs
    /\ \E putErr \in PutErrs :
         LET row == ToBigQueryRow(Event, nextId)
             items == EventItems(rows, row)
             up == upload(Len(uploads) + 1, putErr, puts)
         IN  /\ nextId' = nextId + 1
             /\ events' = Append(events, row.id)
             /\ puts' = up.log
             /\ uploads' = Append(uploads, [items |-> Ids(items), err |-> up.err])
    /\ UNCHANGED << now, cancelled, dispVars, taskVars,
                    aggPc, rows, updateTime, appended >>

    /\ UNCHANGED cfgVars
\* rows after a successful upload
RowsAfterUpload(rs) == << >>

\* rows after a failed upload (the continue at watcher.go:133)
RowsAfterFailure(rs) == rs

\* the row put in front of the rows already there
prependRow(rs, row) == << row >> \o rs

\* rows = append(rows, row.ToBigQueryRow()) (watcher.go:129)
appendRow(rs, row) == Append(rs, row)

\* processResult's select, case result := <-results, with handleUnit(u)
\* blocked in its send
processResultResult(u) ==
    /\ ~Crashed
    /\ aggPc = "select"
    /\ taskPc[u] = "send"
    /\ closeCount = 0
    /\ LET result == SystemdUnitStatus(u, CPUPidUsage(u))
           schema == [ToBigQuerySchema(result, now) EXCEPT !.Hostname = Hostname]
           row == ToBigQueryRow(schema, nextId)
           rows1 == appendRow(rows, row)
       IN  /\ nextId' = nextId + 1
           /\ appended' = Append(appended, row.id)
           /\ IF ShouldUpload(Len(rows1), now - updateTime)
              THEN \E putErr \in PutErrs :
                     LET up == upload(Len(uploads) + 1, putErr, puts)
                     IN  /\ puts' = up.log
                         /\ uploads' = Append(uploads, [items |-> Ids(rows1), err |-> up.err])
                         /\ IF up.err # 0
                            THEN /\ rows' = RowsAfterFailure(rows1)
                                 /\ UNCHANGED updateTime
                            ELSE /\ rows' = RowsAfterUpload(rows1)
                                 /\ updateTime' = now
              ELSE /\ rows' = rows1
                   /\ UNCHANGED << puts, uploads, updateTime >>
    /\ taskPc' = [taskPc EXCEPT ![u] = "idle"]
    /\ UNCHANGED << now, cancelled, dispVars, aggPc, events >>

    /\ UNCHANGED cfgVars
\* processResult's select, case result := <-results on the closed channel:
\* result is nil and result.Name panics (watcher.go:123)
processResultClosed ==
    /\ ~Crashed
    /\ aggPc = "select"
    /\ closeCount > 0
    /\ aggPc' = "panic"
    /\ UNCHANGED << now, cancelled, dispVars, taskVars,
                    rows, updateTime, nextId, puts, uploads, appended, events >>

    /\ UNCHANGED cfgVars
\* ------------------------------------------------------ specification
Next ==
    \/ Tick
    \/ Cancel
    \/ processUnits
    \/ wgWait
    \/ watcherDone
    \/ watcherTimer
    \/ \E u \in Units : handleUnit(u)
    \/ processResultDone
    \/ processResultEvent
    \/ \E u \in Units : processResultResult(u)
    \/ processResultClosed

Spec == Init /\ [][Next]_vars

\* the API server calls NewConfig(os.Args)
apiServerNewConfig ==
    /\ cfgPc = "start"
    /\ cfgRet' = NewConfig(osArgs, osEnv)
    /\ cfgPc' = "done"
    /\ UNCHANGED << osArgs, osEnv, watcherVars >>

ConfigNext == apiServerNewConfig

ConfigSpec == ConfigInit /\ [][ConfigNext]_vars

\* The Go scheduler runs every runnable goroutine: the dispatcher, each
\* handleUnit and the aggregator take their next step when one is possible.
\* Nothing is assumed of the environment (Cancel, the event producer).
FairSpec ==
    /\ Spec
    /\ WF_vars(Tick)
    /\ WF_vars(processUnits \/ wgWait \/ watcherDone \/ watcherTimer)
    /\ \A u \in Units : WF_vars(handleUnit(u))
    /\ WF_vars(\/ processResultDone
               \/ processResultEvent
               \/ \E u \in Units : processResultResult(u)
               \/ processResultClosed)

\* ------------------------------------------------------------- claims

Range(f) == {f[i] : i \in DOMAIN f}

\* history: the upload calls made for the periodic batch (their items are
\* appended rows)
PeriodicCalls == {n \in 1..Len(uploads) : Range(uploads[n].items) \subseteq Range(appended)}

\* a step in which processResult received a sample result
ResultStep == \E u \in Units : taskPc[u] = "send" /\ taskPc'[u] = "idle"

\* C1: every row processResult appended is in exactly one batch handed to
\* upload: no row is in two batches, and while the aggregator runs an
\* appended row is either still in the open batch or in a batch handed over.
C1_EveryRowInExactlyOneBatch ==
    /\ \A m, n \in 1..Len(uploads) :
          m < n => Range(uploads[m].items) \cap Range(uploads[n].items) = {}
    /\ aggPc = "select" =>
          \A id \in Range(appended) :
             \/ id \in Range(Ids(rows))
             \/ \E n \in 1..Len(uploads) : id \in Range(uploads[n].items)

\* C2: every batch handed to upload has between 1 and cfg.FlagBufferSize rows.
C2_BatchSizeWithinBounds ==
    \A n \in 1..Len(uploads) :
       1 <= Len(uploads[n].items) /\ Len(uploads[n].items) <= FlagBufferSize

\* C3: while the aggregator runs, a row of the open batch is never older
\* than cfg.UploadInterval: the batch was handed to upload within
\* UploadInterval of its first row being appended.
C3_FlushedWithinMaxBatchAge ==
    (aggPc = "select" /\ rows # << >>) =>
        now - rows[1].schema.Timestamp <= UploadInterval

\* C4: the step that appends the row bringing the open batch to
\* cfg.FlagBufferSize rows makes exactly one upload call, whatever the time;
\* the call carries the FlagBufferSize rows appended last, none of which an
\* earlier accepted batch carried, and when the backends accept it the open
\* batch is empty afterwards.
C4_CountTrigger ==
    [][ (ResultStep /\ Len(rows) + 1 = FlagBufferSize) =>
           /\ Len(uploads') = Len(uploads) + 1
           /\ Len(appended') >= FlagBufferSize
           /\ Last(uploads').items =
                 SubSeq(appended', Len(appended') - FlagBufferSize + 1, Len(appended'))
           /\ \A n \in 1..Len(uploads) :
                 uploads[n].err = 0 =>
                    Range(uploads[n].items) \cap Range(Last(uploads').items) = {}
           /\ Last(uploads').err = 0 => rows' = << >>
      ]_vars

\* C4 witness: at time 0, before any interval can have elapsed, a batch of
\* FlagBufferSize rows was accepted and the open batch is empty.
C4_Witness ==
    /\ now = 0
    /\ rows = << >>
    /\ \E n \in PeriodicCalls :
          /\ uploads[n].err = 0
          /\ Len(uploads[n].items) = FlagBufferSize
          /\ uploads[n].items = appended

\* C5: a periodic batch whose upload failed is lost: its rows are not in the
\* open batch after the failure, nor in any batch handed to upload later.
C5_FailedBatchIsLost ==
    \A n \in PeriodicCalls :
       uploads[n].err # 0 =>
          /\ Range(uploads[n].items) \cap Range(Ids(rows)) = {}
          /\ \A m \in 1..Len(uploads) :
                m > n => Range(uploads[n].items) \cap Range(uploads[m].items) = {}

\* C6: upload calls Put on the backends in configuration order and stops at
\* the first failure, which it returns: for a call that failed at backend e,
\* the backends 1..e-1 got it, e failed and no backend after e got it; a
\* call with no failure reached every backend.  A failed upload does not end
\* the aggregator: before cancellation it is still in its select.
C6_UploadStopsAtFirstFailure ==
    /\ \A n \in 1..Len(uploads) :
          LET e == uploads[n].err
              mine == SelectSeq(puts, LAMBDA p : p.call = n)
              k == IF e = 0 THEN NSinks ELSE e
          IN  /\ Len(mine) = k
              /\ \A i \in 1..k : mine[i].sink = i /\ mine[i].ok = (i # e)
    /\ \A i, j \in 1..Len(puts) : i < j => puts[i].call <= puts[j].call
    /\ \A i \in 1..Len(puts) : ~puts[i].ok => uploads[puts[i].call].err = puts[i].sink
    /\ (Failed # {} /\ ~cancelled) => aggPc = "select"

\* C6 witness: a call failed at backend 1, backend 2 never got it, and
\* backend 2 got a later call.
C6_Witness ==
    \E n, m \in 1..Len(uploads) :
       /\ n < m
       /\ uploads[n].err = 1
       /\ ~ \E i \in 1..Len(puts) : puts[i].call = n /\ puts[i].sink = 2
       /\ \E i \in 1..Len(puts) : puts[i].call = m /\ puts[i].sink = 2 /\ puts[i].ok

\* C7: once StartWatcher has taken the ctx.Done() branch of its select it
\* never calls processUnits again and no handleUnit is started.
C7_NoTickAfterCancellation ==
    [][ closeCount >= 1 =>
           /\ ~(dispPc = "processUnits" /\ dispPc' # "processUnits")
           /\ \A u \in Units : taskPc[u] = "idle" => taskPc'[u] = "idle"
      ]_vars

\* C8: when ctx is cancelled while the dispatcher is in wg.Wait, the
\* dispatcher eventually leaves wg.Wait (or the process has ended).
C8_DispatcherLeavesWait ==
    (cancelled /\ dispPc = "wait") ~> (dispPc # "wait" \/ Crashed)

\* C9: after ctx is cancelled processResult receives no further result or
\* event and makes no further upload call.
C9_NoInputAfterCancellation ==
    [][ cancelled => (nextId' = nextId /\ uploads' = uploads /\ rows' = rows) ]_vars

\* C10: every event processResult received was uploaded in the step that
\* received it, as a batch of its own holding exactly that one row, and an
\* event row is never in the periodic batch nor in a batch with other rows.
C10_EventUploadedAlone ==
    /\ \A i \in 1..Len(events) :
          /\ \E n \in 1..Len(uploads) : uploads[n].items = << events[i] >>
          /\ \A n \in 1..Len(uploads) :
                events[i] \in Range(uploads[n].items) => Len(uploads[n].items) = 1
          /\ Cardinality({n \in 1..Len(uploads) : events[i] \in Range(uploads[n].items)}) = 1
    /\ Range(events) \cap Range(Ids(rows)) = {}
    /\ Range(events) \cap Range(appended) = {}

\* C10 witness: an event arrived while the periodic batch held a row, went
\* out alone, and the periodic batch still holds its row.
C10_Witness ==
    /\ rows # << >>
    /\ \E i \in 1..Len(events) :
          /\ rows[1].id < events[i]
          /\ \E n \in 1..Len(uploads) : uploads[n].items = << events[i] >>

\* C11: in a tick, while ctx is not cancelled: a unit whose sampling fails
\* ends its task and nothing is appended for it; a unit whose sampling
\* succeeded stays in its send until processResult receives its result, which
\* appends exactly one row, that unit's, and touches no other task; a task
\* that ended is not restarted within the tick; and the tick can always go
\* on: a task can step, processResult can receive, or wg.Wait can return.
C11_FailureIsolatedToItsUnit ==
    [][ ~cancelled =>
          /\ \A u \in Units :
                /\ (taskPc[u] = "load" /\ taskPc'[u] = "idle") =>
                       (appended' = appended /\ uploads' = uploads /\ rows' = rows)
                /\ taskPc[u] = "send" => taskPc'[u] \in {"send", "idle"}
                /\ (taskPc[u] = "send" /\ taskPc'[u] = "idle") =>
                       /\ Len(appended') = Len(appended) + 1
                       /\ \A v \in Units \ {u} : taskPc'[v] = taskPc[v]
                       /\ rows' # << >> =>
                             /\ Last(rows').id = Last(appended')
                             /\ Last(rows').schema.Name = UnitName(u)
                /\ (taskPc[u] = "idle" /\ taskPc'[u] # "idle") =>
                       (dispPc = "processUnits" /\ taskPc'[u] = "load")
          /\ dispPc = "wait" =>
                ENABLED (\/ wgWait
                         \/ \E u \in Units : handleUnit(u)
                         \/ \E u \in Units : processResultResult(u))
      ]_vars

\* C11 witness: the first tick is over (no timer can have fired at time 0),
\* ctx is not cancelled, unit 1 appended nothing and unit 2's row is the one
\* row appended.
C11_Witness ==
    /\ ~cancelled
    /\ now = 0
    /\ dispPc = "select"
    /\ Len(appended) = 1
    /\ Len(rows) = 1
    /\ rows[1].schema.Name = UnitName(2)

\* C12: a processUnits call whose enumeration fails starts no task and
\* changes nothing of the aggregator, and the dispatcher goes on to its
\* select; from there, while ctx is not cancelled, it leaves only when
\* cfg.Wait has elapsed, and then it can leave; back at processUnits it can
\* enumerate again, and an enumeration that succeeds starts a task per unit.
C12_EnumerationFailureSkipsTick ==
    [][ /\ (dispPc = "processUnits" /\ dispPc' # dispPc) =>
              /\ dispPc' \in {"select", "wait"}
              /\ dispPc' = "select" =>
                    /\ enumErr'
                    /\ taskPc' = taskPc
                    /\ \A u \in Units : taskPc'[u] = "idle"
                    /\ aggVars' = aggVars
                    /\ timerAt' = now + Wait
              /\ dispPc' = "wait" =>
                    /\ ~enumErr'
                    /\ \A u \in Units : taskPc'[u] = "load"
        /\ (enumErr /\ dispPc = "select" /\ ~cancelled /\ dispPc' # dispPc) =>
              (now >= timerAt /\ dispPc' = "processUnits")
        /\ (enumErr /\ dispPc = "select" /\ now >= timerAt /\ ~Crashed) =>
              ENABLED watcherTimer
        /\ (enumErr /\ dispPc = "processUnits" /\ ~Crashed) =>
              ENABLED (processUnits /\ dispPc' = "wait")
      ]_vars

\* C12 witness: an enumeration failed, cfg.Wait elapsed, and the dispatcher
\* is about to call processUnits again, ctx not being cancelled.
C12_Witness ==
    /\ enumErr
    /\ ~cancelled
    /\ dispPc = "processUnits"
    /\ now >= Wait
    /\ \A u \in Units : taskPc[u] = "idle"

\* C13: handleUnit goroutines run only while the dispatcher is in the
\* wg.Wait of the tick that started them, and a tick starts its goroutines
\* only when none of an earlier tick is left: the goroutines of two ticks
\* never run at the same time.
C13_NoCrossTickOverlap ==
    [][ /\ dispPc # "wait" => \A u \in Units : taskPc[u] = "idle"
        /\ (\E u \in Units : taskPc[u] = "idle" /\ taskPc'[u] # "idle") =>
              /\ \A v \in Units : taskPc[v] = "idle"
              /\ dispPc = "processUnits"
              /\ dispPc' = "wait"
        /\ (dispPc = "wait" /\ dispPc' # "wait") =>
              \A u \in Units : taskPc'[u] = "idle"
      ]_vars

\* C13 witness: a second tick is running (the first one delivered a result
\* for every unit, one more result has arrived since) and one of its
\* goroutines has not finished.
C13_Witness ==
    /\ dispPc = "wait"
    /\ Len(appended) > NUnits
    /\ \E u \in Units : taskPc[u] = "load"

\* C14: NewConfig returns a Config exactly when args is not empty, the
\* flags parse, and the flush interval string parses as a duration, that
\* string being the value of -flush-buffer if the flag is given, else the
\* value of API_SERVER_FLUSH_INTERVAL if it is set, else "10s"; the Config
\* then holds that string and its duration and the error is nil.  In every
\* other case the Config is nil and the error is not.
C14_NewConfigContract ==
    cfgPc = "done" =>
        LET fs == Parse(Tail(osArgs), NoFlags)
            str == IF "flush-buffer" \in fs.actual.set
                   THEN fs.actual.val["flush-buffer"]
                   ELSE IF osEnv.FLUSH_INTERVAL # "" THEN osEnv.FLUSH_INTERVAL
                   ELSE "10s"
        IN  IF /\ osArgs # << >>
               /\ fs.err = NoError
               /\ ParseDuration(str).err = NoError
            THEN /\ Len(cfgRet.c) = 1
                 /\ cfgRet.err = NoError
                 /\ cfgRet.c[1].FlagEventFlushInterval = str
                 /\ cfgRet.c[1].EventUploadInterval = ParseDuration(str).d
            ELSE /\ cfgRet.c = << >>
                 /\ cfgRet.err # NoError

\* C14 witness: the environment sets a two hour interval, the command line
\* one of a minute and a half, and NewConfig returned a Config with an
\* EventUploadInterval of 90 seconds.
C14_Witness ==
    /\ cfgPc = "done"
    /\ osEnv.FLUSH_INTERVAL = "2h"
    /\ osArgs = << "api-server", "-flush-buffer", "1m30s" >>
    /\ Len(cfgRet.c) = 1
    /\ cfgRet.c[1].EventUploadInterval = 90000

\* history: the place of row id in the order processResult received the
\* sample results
ReceivedAt(id) == CHOOSE i \in 1..Len(appended) : appended[i] = id

\* the ids of a sequence are in the order their results were received
InReceiveOrder(ids) ==
    \A i, j \in 1..Len(ids) : i < j => ReceivedAt(ids[i]) < ReceivedAt(ids[j])

\* C15: the rows of the open batch, and the rows of every batch handed to
\* upload for the periodic samples, are in the order in which processResult
\* received their results; and a row that a later batch adds to an earlier
\* one was received after every row of the earlier batch.
C15_ReceiveOrderPreserved ==
    /\ InReceiveOrder(Ids(rows))
    /\ \A n \in PeriodicCalls : InReceiveOrder(uploads[n].items)
    /\ \A m, n \in PeriodicCalls :
          m < n =>
             \A x \in Range(uploads[m].items) :
                \A y \in Range(uploads[n].items) \ Range(uploads[m].items) :
                   ReceivedAt(x) < ReceivedAt(y)

\* C15 witness: a batch of two rows has been handed to upload, and in it
\* the row of unit 2 comes before the row of unit 1 (the batch is still in
\* rows because its upload failed).
C15_Witness ==
    /\ Len(rows) = 2
    /\ rows[1].schema.Name = UnitName(2)
    /\ rows[2].schema.Name = UnitName(1)
    /\ \E n \in PeriodicCalls : uploads[n].items = Ids(rows)

\* C16: a step of processResult that hands the periodic batch to upload,
\* for the row count or for the age, leaves an empty batch whose updateTime
\* is the time of that step.
C16_FlushOpensNewBatch ==
    [][ (ResultStep /\ Len(uploads') = Len(uploads) + 1) =>
            (rows' = << >> /\ updateTime' = now)
      ]_vars

\* the unit a row was built for
UnitOf(row) == CHOOSE u \in Units : UnitName(u) = row.schema.Name

\* C17: every row built from a sample result has the unit's name, its pid
\* as instance, and the user, system and total CPU usage measured for the
\* unit's process in the fields of the same name.
C17_CPUFieldsFromTheirInputs ==
    \A i \in 1..Len(rows) :
       LET u == UnitOf(rows[i])
           r == rows[i].schema
       IN  /\ r.Name = UnitName(u)
           /\ r.Instance = Itoa(UnitPid(u))
           /\ r.UserCPU_Usage = CPUPidUsage(u).User
           /\ r.SystemCPU_Usage = CPUPidUsage(u).System
           /\ r.TotalCPU_Usage = CPUPidUsage(u).Total

\* C18: StartWatcher never executes close(resultChan) on the channel it
\* has closed already.
C18_ResultChanClosedAtMostOnce ==
    /\ closeCount <= 1
    /\ dispPc # "panic"

\* C19: processResult never takes the nil of the closed resultChan in its
\* result branch, and no handleUnit is in its send once the channel is
\* closed.
C19_NoNilResultNoSendOnClosed ==
    /\ aggPc # "panic"
    /\ closeCount > 0 => \A u \in Units : taskPc[u] # "send"

\* C20: a step in which processResult handles an event changes neither
\* rows nor updateTime, whatever upload returns.
C20_EventLeavesBatchUntouched ==
    [][ Len(events') = Len(events) + 1 =>
            /\ rows' = rows
            /\ updateTime' = updateTime
            /\ appended' = appended
      ]_vars

\* C20 witness: with a row in the open batch, one event was uploaded
\* with success and another one failed, and the row is still there; the
\* batch was opened at 0 and the clock is past it.
C20_Witness ==
    /\ Len(rows) = 1
    /\ updateTime = 0
    /\ now > 0
    /\ \E m, n \in 1..Len(uploads) :
          /\ uploads[m].items \in {<< e >> : e \in Range(events)}
          /\ uploads[n].items \in {<< e >> : e \in Range(events)}
          /\ uploads[m].items[1] > rows[1].id
          /\ uploads[n].items[1] > rows[1].id
          /\ uploads[m].err = 0
          /\ uploads[n].err # 0

====
